---- MODULE Spec2Model ----
(***************************************************************************)
(* University API (src/main.py, src/schemas.py): registration and login,   *)
(* the course catalogue and enrollment, over a document store.             *)
(*                                                                         *)
(* The store is three collections kept in insertion order ("user",         *)
(* "course", "enrollment").  Spec handles requests one at a time (one      *)
(* action per handler); SeededSpec does the same over a database that      *)
(* already holds documents when the process starts; CatalogSpec is the     *)
(* course catalogue alone with every course field varied; ConcSpec         *)
(* interleaves the store operations of two requests.                       *)
(***************************************************************************)
EXTENDS Integers, Sequences, FiniteSets, TLC

VARIABLES
    connected,     \* the module-level handle `db` is not None
    users,         \* collection "user", in insertion order
    courses,       \* collection "course"
    enrollments,   \* collection "enrollment"
    nextId,        \* per collection, the next identifier the store generates
    resp,          \* the response to the last request handled (one at a time)
    registered,    \* history: credentials whose register request succeeded
    pc,            \* ConcSpec: position of each in-flight request
    req,           \* ConcSpec: payload of each in-flight request
    found,         \* ConcSpec: handler locals (user, course, existing)
    out            \* ConcSpec: response of each request

store == <<users, courses, enrollments, nextId>>
conc  == <<pc, req, found, out>>
vars  == <<connected, users, courses, enrollments, nextId, resp, registered,
           pc, req, found, out>>

----------------------------------------------------------------------------
(* Bounds *)

MaxUsers == 2         \* documents inserted into "user"
MaxCourses == 2       \* documents inserted into "course"
MaxEnrollments == 2   \* documents inserted into "enrollment"

Cap(name) == CASE name = "user" -> MaxUsers
               [] name = "course" -> MaxCourses
               [] OTHER -> MaxEnrollments

----------------------------------------------------------------------------
(* Values *)

Emails      == {"a@u.edu", "b@u.edu"}
Passwords   == {"pw1", "pw2"}
\* The register payloads tried: two of them share an email and differ in
\* name and password.
RegisterPayloads ==
    {<<"Ann", "a@u.edu", "pw1">>, <<"Bob", "a@u.edu", "pw2">>,
     <<"Bob", "b@u.edu", "pw1">>}
\* The text fields of a course are tuples of one-character strings.
Codes       == {<<"C", "S">>, <<"m", "a">>}
Titles      == {<<"a", "i">>, <<"D", "b">>}
Instructors == {<<"B", "o">>, <<"c", "s">>}
TagLists    == {<<>>, <<"core">>, <<"core", "lab">>}
\* q and tag of GET /courses; <<>> and "" stand for an absent (or empty,
\* equally falsy) parameter.
Queries     == {<<>>, <<"c", "s">>, <<"A">>, <<".">>}
TagParams   == {"", "core", "lab"}

\* An ObjectId is an opaque unique key: the k-th identifier generated for
\* collection c.  Identifier strings at the API boundary: a well-formed one
\* is 24 hex digits, and the digits a-f may come in either case, so one
\* ObjectId has more than one spelling; str() gives the lower-case one.
\* wf = FALSE is a string bson rejects.
Malformed == [wf |-> FALSE, c |-> "", k |-> 0, upper |-> FALSE]
\* The lower-case spelling of each of the first max identifiers of
\* collection c, and the upper-case spelling of the first.
Lowercase(c, max) == [wf : {TRUE}, c : {c}, k : 1..max, upper : {FALSE}]
Uppercase(c) == [wf |-> TRUE, c |-> c, k |-> 1, upper |-> TRUE]
\* The identifiers tried as user_id and as course_id: identifiers of the
\* collection itself, one of another collection, a malformed one.
UserIdInputs   == Lowercase("user", MaxUsers) \cup Lowercase("course", 1)
                    \cup {Malformed}
CourseIdInputs == Lowercase("course", MaxCourses) \cup {Uppercase("course")}
                    \cup {Malformed}

\* bson.ObjectId.is_valid / ObjectId(s) / str(oid)
ObjectId_is_valid(s) == s.wf
ObjectId(s) == [c |-> s.c, k |-> s.k]
str(oid) == [wf |-> TRUE, c |-> oid.c, k |-> oid.k, upper |-> FALSE]

Lower(c) == CASE c = "A" -> "a" [] c = "B" -> "b" [] c = "C" -> "c"
              [] c = "D" -> "d" [] c = "S" -> "s" [] OTHER -> c

----------------------------------------------------------------------------
(* Store adapter and schemas *)

\* The module-level handle: `db` is truthy exactly when a connection exists.
db == connected

\* The result of find_one: <<>> is None, <<d>> the first matching document.
None == <<>>

\* collection.find_one(filter), given the documents the filter matches in
\* insertion order.
find_one(matching) ==
    IF matching = <<>> THEN None ELSE <<Head(matching)>>

\* create_document(collection_name, data): inserts the record under a fresh
\* identifier; the handler answers with str of that identifier.
create_document(coll, name, data) ==
    Append(coll, [_id |-> [c |-> name, k |-> nextId[name]]] @@ data)

NewId(name) == [c |-> name, k |-> nextId[name]]
Bump(name) == [nextId EXCEPT ![name] = @ + 1]

\* get_documents(collection_name, filter), given the documents the filter
\* matches: every matching record, and the empty sequence when no connection
\* is configured.
get_documents(matching) ==
    IF db THEN matching ELSE <<>>

hash_password(pw) == <<"sha256", pw>>

User(name, email, password_hash, role, is_active) ==
    [name |-> name, email |-> email, password_hash |-> password_hash,
     role |-> role, is_active |-> is_active]

Course(code, title, instructor, tags) ==
    [code |-> code, title |-> title, description |-> "None", credits |-> 3,
     instructor |-> instructor, tags |-> tags]

Enrollment(user_id, course_id) ==
    [user_id |-> user_id, course_id |-> course_id, status |-> "enrolled",
     enrolled_at |-> "None"]

Range(s) == {s[i] : i \in DOMAIN s}

----------------------------------------------------------------------------
(* Responses *)

\* A handler returns a body (200), raises HTTPException(status, detail), or
\* lets another exception escape; the framework answers an escaped exception
\* with 500.  trace lists the store operations the handler performed.
Returned(op, body, trace) ==
    [op |-> op, raised |-> "none", status |-> 200, detail |-> "",
     body |-> body, trace |-> trace]

HTTPException(op, status_code, detail, trace) ==
    [op |-> op, raised |-> "HTTPException", status |-> status_code,
     detail |-> detail, body |-> <<>>, trace |-> trace]

Escaped(op, what, trace) ==
    [op |-> op, raised |-> "Exception", status |-> 500, detail |-> what,
     body |-> <<>>, trace |-> trace]

NoResponse ==
    [op |-> "none", raised |-> "none", status |-> 0, detail |-> "",
     body |-> <<>>, trace |-> <<>>]

\* The store operations of `x if db else None`.
Op(name) == IF db THEN <<name>> ELSE <<>>

----------------------------------------------------------------------------
(* Handlers, one request at a time: each action is one whole handler *)

\* Variant: the lookup compares the wrong field.
register_existing_by_name(email) ==
    IF db THEN find_one(SelectSeq(users, LAMBDA d : d.name = email)) ELSE None

\* register: existing = db["user"].find_one({"email": ...}) if db else None
register_existing(email) ==
    IF db THEN find_one(SelectSeq(users, LAMBDA d : d.email = email)) ELSE None

\* Variant: the password is stored as given, not hashed.
register_user_plain(name, email, password) ==
    User(name, email, <<"plain", password>>, "student", TRUE)

\* register: the User it builds
register_user(name, email, password) ==
    User(name, email, hash_password(password), "student", TRUE)

\* POST /auth/register
register(name, email, password) ==
    LET existing == register_existing(email)
        t1   == Op("find_one user")
        user == register_user(name, email, password)
    IN  IF existing # None
        THEN /\ resp' = HTTPException("register", 400,
                                      "Email already registered", t1)
             /\ UNCHANGED store
        ELSE IF ~db
        THEN /\ resp' = Escaped("register", "StoreUnavailable", t1)
             /\ UNCHANGED store
        ELSE /\ nextId["user"] <= Cap("user")
             /\ users' = create_document(users, "user", user)
             /\ nextId' = Bump("user")
             /\ resp' = Returned("register",
                    <<[id |-> str(NewId("user")), name |-> user.name,
                       email |-> user.email, role |-> user.role]>>,
                    t1 \o <<"insert user">>)
             /\ UNCHANGED <<courses, enrollments>>

\* The session token: sha1 of str(_id) followed by the email.
Token(oid, email) == <<"sha1", str(oid), email>>

\* login: doc = db["user"].find_one({"email": ...}) if db else None
login_doc(email) ==
    IF db THEN find_one(SelectSeq(users, LAMBDA d : d.email = email)) ELSE None

\* login: the stored hash differs from the hash of the supplied password
login_mismatch(doc, password) ==
    doc[1].password_hash # hash_password(password)

\* POST /auth/login
login(email, password) ==
    LET doc == login_doc(email)
        t1  == Op("find_one user")
    IN  /\ UNCHANGED store
        /\ IF doc = None
           THEN resp' = HTTPException("login", 401, "Invalid credentials", t1)
           ELSE IF login_mismatch(doc, password)
           THEN resp' = HTTPException("login", 401, "Invalid credentials", t1)
           ELSE resp' = Returned("login",
                    <<[token |-> Token(doc[1]._id, email),
                       user |-> [id |-> str(doc[1]._id), name |-> doc[1].name,
                                 email |-> doc[1].email, role |-> doc[1].role]]>>,
                    t1)

\* Variant: the lookup compares the wrong field.
create_course_existing_by_title(code) ==
    IF db THEN find_one(SelectSeq(courses, LAMBDA d : d.title = code)) ELSE None

\* create_course: existing = db["course"].find_one({"code": ...}) if db else None
create_course_existing(code) ==
    IF db THEN find_one(SelectSeq(courses, LAMBDA d : d.code = code)) ELSE None

\* POST /courses
create_course(code, title, instructor, tags) ==
    LET existing == create_course_existing(code)
        t1     == Op("find_one course")
        course == Course(code, title, instructor, tags)
    IN  IF existing # None
        THEN /\ resp' = HTTPException("create_course", 400,
                                      "Course code already exists", t1)
             /\ UNCHANGED store
        ELSE IF ~db
        THEN /\ resp' = Escaped("create_course", "StoreUnavailable", t1)
             /\ UNCHANGED store
        ELSE /\ nextId["course"] <= Cap("course")
             /\ courses' = create_document(courses, "course", course)
             /\ nextId' = Bump("course")
             /\ resp' = Returned("create_course",
                                 <<[id |-> str(NewId("course"))]>>,
                                 t1 \o <<"insert course">>)
             /\ UNCHANGED <<users, enrollments>>

\* {"$regex": q, "$options": "i"} on a string field: q is searched as a
\* regular expression, ignoring case.  Of the regex syntax the model has
\* literal characters and ".", which matches any character.
regex_search(q, text) ==
    \E off \in 0..(Len(text) - Len(q)) :
        \A k \in 1..Len(q) :
            q[k] = "." \/ Lower(q[k]) = Lower(text[off + k])

\* The filter list_courses builds: $or over three fields when q is truthy,
\* and tags containing tag when tag is truthy.
filter_q(d, q, tag) ==
    /\ q # <<>> => \/ regex_search(q, d.title)
                   \/ regex_search(q, d.code)
                   \/ regex_search(q, d.instructor)
    /\ tag # "" => tag \in Range(d.tags)

CourseSummary(d) ==
    [id |-> str(d._id), code |-> d.code, title |-> d.title,
     description |-> d.description, credits |-> d.credits,
     instructor |-> d.instructor, tags |-> d.tags]

\* GET /courses
list_courses(q, tag) ==
    LET docs == get_documents(SelectSeq(courses, LAMBDA d : filter_q(d, q, tag)))
    IN  /\ resp' = Returned("list_courses",
                            [i \in 1..Len(docs) |-> CourseSummary(docs[i])],
                            Op("find course"))
        /\ UNCHANGED store

\* Variant: only user_id is validated.
enroll_invalid_user_only(user_id, course_id) == ~ObjectId_is_valid(user_id)

\* enroll: either identifier is not a well-formed ObjectId string
enroll_invalid(user_id, course_id) ==
    ~ObjectId_is_valid(user_id) \/ ~ObjectId_is_valid(course_id)

\* enroll: the three reads
enroll_user(user_id) ==
    IF db
    THEN find_one(SelectSeq(users, LAMBDA d : d._id = ObjectId(user_id)))
    ELSE None

enroll_course(course_id) ==
    IF db
    THEN find_one(SelectSeq(courses, LAMBDA d : d._id = ObjectId(course_id)))
    ELSE None

\* Variant: the duplicate lookup filters on user_id alone.
enroll_existing_user_only(user_id, course_id) ==
    IF db
    THEN find_one(SelectSeq(enrollments, LAMBDA d : d.user_id = user_id))
    ELSE None

enroll_existing(user_id, course_id) ==
    IF db
    THEN find_one(SelectSeq(enrollments,
                            LAMBDA d : /\ d.user_id = user_id
                                       /\ d.course_id = course_id))
    ELSE None

\* Variant: `and` in place of `or`.
enroll_missing_both(user, course) == user = None /\ course = None

\* enroll: if not user or not course
enroll_missing(user, course) == user = None \/ course = None

\* POST /enroll
enroll(user_id, course_id) ==
    IF enroll_invalid(user_id, course_id)
    THEN /\ resp' = HTTPException("enroll", 400, "Invalid IDs", <<>>)
         /\ UNCHANGED store
    ELSE
    LET user     == enroll_user(user_id)
        course   == enroll_course(course_id)
        t2       == Op("find_one user") \o Op("find_one course")
        existing == enroll_existing(user_id, course_id)
        t3       == t2 \o Op("find_one enrollment")
        enrollment == Enrollment(user_id, course_id)
    IN  IF enroll_missing(user, course)
        THEN /\ resp' = HTTPException("enroll", 404,
                                      "User or course not found", t2)
             /\ UNCHANGED store
        ELSE IF existing # None
        THEN /\ resp' = HTTPException("enroll", 400, "Already enrolled", t3)
             /\ UNCHANGED store
        ELSE IF ~db
        THEN /\ resp' = Escaped("enroll", "StoreUnavailable", t3)
             /\ UNCHANGED store
        ELSE /\ nextId["enrollment"] <= Cap("enrollment")
             /\ enrollments' = create_document(enrollments, "enrollment",
                                               enrollment)
             /\ nextId' = Bump("enrollment")
             /\ resp' = Returned("enroll",
                    <<[id |-> str(NewId("enrollment")), status |-> "enrolled"]>>,
                    t3 \o <<"insert enrollment">>)
             /\ UNCHANGED <<users, courses>>

\* The loop of list_user_enrollments over docs: one entry for each
\* enrollment whose course is found, in order.
RECURSIVE hydrate(_)
hydrate(docs) ==
    IF docs = <<>> THEN <<>>
    ELSE LET e == Head(docs)
             c == IF db THEN find_one(SelectSeq(courses,
                                LAMBDA d : d._id = ObjectId(e.course_id)))
                  ELSE None
         IN  IF c # None
             THEN <<[enrollment_id |-> str(e._id), status |-> e.status,
                     course |-> [id |-> str(c[1]._id), code |-> c[1].code,
                                 title |-> c[1].title,
                                 instructor |-> c[1].instructor,
                                 credits |-> c[1].credits]]>>
                  \o hydrate(Tail(docs))
             ELSE hydrate(Tail(docs))

\* Variant: the filter is dropped.
user_enrollments_all(user_id) ==
    get_documents(SelectSeq(enrollments, LAMBDA d : TRUE))

\* list_user_enrollments: get_documents("enrollment", {"user_id": user_id})
user_enrollments(user_id) ==
    get_documents(SelectSeq(enrollments, LAMBDA d : d.user_id = user_id))

\* GET /users/{user_id}/enrollments
list_user_enrollments(user_id) ==
    /\ UNCHANGED store
    /\ IF ~ObjectId_is_valid(user_id)
       THEN resp' = HTTPException("list_user_enrollments", 400,
                                  "Invalid user id", <<>>)
       ELSE LET docs == user_enrollments(user_id)
            IN  resp' = Returned("list_user_enrollments", hydrate(docs),
                    Op("find enrollment")
                    \o [i \in 1..Len(docs) |-> "find_one course"])

----------------------------------------------------------------------------
(* One request at a time *)

NoRequests == [p \in {} |-> "idle"]

Init ==
    /\ connected \in BOOLEAN
    /\ users = <<>> /\ courses = <<>> /\ enrollments = <<>>
    /\ nextId = [c \in {"user", "course", "enrollment"} |-> 1]
    /\ resp = NoResponse
    /\ registered = {}
    /\ pc = NoRequests /\ req = NoRequests
    /\ found = NoRequests /\ out = NoRequests

\* registered is a history variable: the credentials of the register
\* requests answered with 200.
Register ==
    /\ \E r \in RegisterPayloads :
          /\ register(r[1], r[2], r[3])
          /\ registered' = IF resp'.status = 200
                           THEN registered \cup {<<r[2], r[3]>>}
                           ELSE registered
    /\ UNCHANGED <<connected, conc>>

Login ==
    /\ \E e \in Emails, p \in Passwords : login(e, p)
    /\ UNCHANGED <<connected, registered, conc>>

CreateCourse ==
    /\ \E c \in Codes : create_course(c, <<"a", "i">>, <<"B", "o">>, <<>>)
    /\ UNCHANGED <<connected, registered, conc>>

ListCourses ==
    /\ \E q \in {<<>>, <<"c", "s">>}, t \in {"", "core"} : list_courses(q, t)
    /\ UNCHANGED <<connected, registered, conc>>

Enroll ==
    /\ \E u \in UserIdInputs, c \in CourseIdInputs : enroll(u, c)
    /\ UNCHANGED <<connected, registered, conc>>

ListUserEnrollments ==
    /\ \E u \in UserIdInputs : list_user_enrollments(u)
    /\ UNCHANGED <<connected, registered, conc>>

Next ==
    \/ Register
    \/ Login
    \/ CreateCourse
    \/ ListCourses
    \/ Enroll
    \/ ListUserEnrollments

Spec == Init /\ [][Next]_vars

----------------------------------------------------------------------------
(* A database that already holds documents when the process connects *)

\* The store does not enforce references: here the course an enrollment
\* names was removed from the database by other means before the process
\* started (course 1 is gone, course 2 is stored).
SeedUsers == <<[_id |-> [c |-> "user", k |-> 1]]
                 @@ User("Ann", "a@u.edu", hash_password("pw1"), "student", TRUE)>>
SeedCourses == <<[_id |-> [c |-> "course", k |-> 2]]
                   @@ Course(<<"C", "S">>, <<"a", "i">>, <<"B", "o">>, <<>>)>>
SeedEnrollments ==
    <<[_id |-> [c |-> "enrollment", k |-> 1]]
        @@ Enrollment(str([c |-> "user", k |-> 1]),
                      str([c |-> "course", k |-> 1]))>>

SeededInit ==
    \/ Init
    \/ /\ connected = TRUE
       /\ users = SeedUsers /\ courses = SeedCourses
       /\ enrollments = SeedEnrollments
       /\ nextId = [c \in {"user", "course", "enrollment"} |->
                       CASE c = "user" -> 2 [] c = "course" -> 3 [] OTHER -> 2]
       /\ resp = NoResponse
       /\ registered = {<<"a@u.edu", "pw1">>}
       /\ pc = NoRequests /\ req = NoRequests
       /\ found = NoRequests /\ out = NoRequests

SeededSpec == SeededInit /\ [][Next]_vars

----------------------------------------------------------------------------
(* The course catalogue alone, with every field of a course varied *)

CatalogCreate ==
    /\ \E c \in Codes, t \in Titles, i \in Instructors, g \in TagLists :
          create_course(c, t, i, g)
    /\ UNCHANGED <<connected, registered, conc>>

CatalogList ==
    /\ \E q \in Queries, t \in TagParams : list_courses(q, t)
    /\ UNCHANGED <<connected, registered, conc>>

CatalogNext == CatalogCreate \/ CatalogList

CatalogSpec == Init /\ [][CatalogNext]_vars

----------------------------------------------------------------------------
(* Interleaved requests: one action per store operation of a handler *)

\* Two requests in flight at a time (two workers).
Procs == {1, 2}

\* The payloads tried: two register requests with one email, one course
\* code, the identifiers of the first two users and of the first course.
ConcPayloads  == {<<"Ann", "a@u.edu", "pw1">>, <<"Bob", "a@u.edu", "pw2">>}
ConcCodes     == {<<"C", "S">>}
ConcUserIds   == {str([c |-> "user", k |-> n]) : n \in 1..MaxUsers}
                    \cup {Malformed}
ConcCourseIds == {str([c |-> "course", k |-> 1]), Malformed}

NoLocals == [user |-> None, course |-> None, existing |-> None]
NoOut == [status |-> 0, detail |-> ""]
Answer(status_code, detail) == [status |-> status_code, detail |-> detail]

ConcInit ==
    /\ connected \in BOOLEAN
    /\ users = <<>> /\ courses = <<>> /\ enrollments = <<>>
    /\ nextId = [c \in {"user", "course", "enrollment"} |-> 1]
    /\ resp = NoResponse
    /\ registered = {}
    /\ pc = [p \in Procs |-> "idle"]
    /\ req = [p \in Procs |-> <<>>]
    /\ found = [p \in Procs |-> NoLocals]
    /\ out = [p \in Procs |-> NoOut]

Goto(p, label) == pc' = [pc EXCEPT ![p] = label]
Reply(p, answer) == out' = [out EXCEPT ![p] = answer]

\* register, up to its read of the user collection
RegisterFind(p) ==
    /\ pc[p] = "idle"
    /\ \E r \in ConcPayloads :
          req' = [req EXCEPT ![p] = [name |-> r[1], email |-> r[2],
                                     password |-> r[3]]]
    /\ found' = [found EXCEPT ![p] =
                    [NoLocals EXCEPT !.existing = register_existing(req'[p].email)]]
    /\ Goto(p, "register_create")
    /\ Reply(p, NoOut)
    /\ UNCHANGED <<connected, store, resp, registered>>

\* Variant: the insert is refused when the email is stored by then (as a
\* unique index would).
RegisterCreateRechecked(p) ==
    /\ pc[p] = "register_create"
    /\ Goto(p, "idle")
    /\ UNCHANGED <<connected, resp, registered, req, found>>
    /\ IF found[p].existing # None \/ register_existing(req[p].email) # None
       THEN /\ Reply(p, Answer(400, "Email already registered"))
            /\ UNCHANGED store
       ELSE IF ~db
       THEN /\ Reply(p, Answer(500, "StoreUnavailable"))
            /\ UNCHANGED store
       ELSE /\ nextId["user"] <= Cap("user")
            /\ users' = create_document(users, "user",
                  register_user(req[p].name, req[p].email, req[p].password))
            /\ nextId' = Bump("user")
            /\ Reply(p, Answer(200, ""))
            /\ UNCHANGED <<courses, enrollments>>

\* register, from `if existing` to its return
RegisterCreate(p) ==
    /\ pc[p] = "register_create"
    /\ Goto(p, "idle")
    /\ UNCHANGED <<connected, resp, registered, req, found>>
    /\ IF found[p].existing # None
       THEN /\ Reply(p, Answer(400, "Email already registered"))
            /\ UNCHANGED store
       ELSE IF ~db
       THEN /\ Reply(p, Answer(500, "StoreUnavailable"))
            /\ UNCHANGED store
       ELSE /\ nextId["user"] <= Cap("user")
            /\ users' = create_document(users, "user",
                  register_user(req[p].name, req[p].email, req[p].password))
            /\ nextId' = Bump("user")
            /\ Reply(p, Answer(200, ""))
            /\ UNCHANGED <<courses, enrollments>>

\* create_course, up to its read of the course collection
CreateCourseFind(p) ==
    /\ pc[p] = "idle"
    /\ \E c \in ConcCodes : req' = [req EXCEPT ![p] = [code |-> c]]
    /\ found' = [found EXCEPT ![p] =
                    [NoLocals EXCEPT !.existing = create_course_existing(req'[p].code)]]
    /\ Goto(p, "create_course_create")
    /\ Reply(p, NoOut)
    /\ UNCHANGED <<connected, store, resp, registered>>

\* create_course, from `if existing` to its return
CreateCourseCreate(p) ==
    /\ pc[p] = "create_course_create"
    /\ Goto(p, "idle")
    /\ UNCHANGED <<connected, resp, registered, req, found>>
    /\ IF found[p].existing # None
       THEN /\ Reply(p, Answer(400, "Course code already exists"))
            /\ UNCHANGED store
       ELSE IF ~db
       THEN /\ Reply(p, Answer(500, "StoreUnavailable"))
            /\ UNCHANGED store
       ELSE /\ nextId["course"] <= Cap("course")
            /\ courses' = create_document(courses, "course",
                  Course(req[p].code, <<"a", "i">>, <<"B", "o">>, <<>>))
            /\ nextId' = Bump("course")
            /\ Reply(p, Answer(200, ""))
            /\ UNCHANGED <<users, enrollments>>

\* enroll: the identifier check and the read of the user
EnrollFindUser(p) ==
    /\ pc[p] = "idle"
    /\ \E u \in ConcUserIds, c \in ConcCourseIds :
          req' = [req EXCEPT ![p] = [user_id |-> u, course_id |-> c]]
    /\ UNCHANGED <<connected, store, resp, registered>>
    /\ IF enroll_invalid(req'[p].user_id, req'[p].course_id)
       THEN /\ Reply(p, Answer(400, "Invalid IDs"))
            /\ found' = [found EXCEPT ![p] = NoLocals]
            /\ UNCHANGED pc
       ELSE /\ Reply(p, NoOut)
            /\ found' = [found EXCEPT ![p] =
                  [NoLocals EXCEPT !.user = enroll_user(req'[p].user_id)]]
            /\ Goto(p, "enroll_find_course")

\* enroll: the read of the course and `if not user or not course`
EnrollFindCourse(p) ==
    /\ pc[p] = "enroll_find_course"
    /\ UNCHANGED <<connected, store, resp, registered, req>>
    /\ found' = [found EXCEPT ![p].course = enroll_course(req[p].course_id)]
    /\ IF enroll_missing(found'[p].user, found'[p].course)
       THEN /\ Reply(p, Answer(404, "User or course not found"))
            /\ Goto(p, "idle")
       ELSE /\ UNCHANGED out
            /\ Goto(p, "enroll_find_existing")

\* enroll: the read of the enrollment collection and `if existing`
EnrollFindExisting(p) ==
    /\ pc[p] = "enroll_find_existing"
    /\ UNCHANGED <<connected, store, resp, registered, req>>
    /\ found' = [found EXCEPT ![p].existing =
                    enroll_existing(req[p].user_id, req[p].course_id)]
    /\ IF found'[p].existing # None
       THEN /\ Reply(p, Answer(400, "Already enrolled"))
            /\ Goto(p, "idle")
       ELSE /\ UNCHANGED out
            /\ Goto(p, "enroll_create")

\* enroll: the insert and the return
EnrollCreate(p) ==
    /\ pc[p] = "enroll_create"
    /\ Goto(p, "idle")
    /\ UNCHANGED <<connected, resp, registered, req, found>>
    /\ IF ~db
       THEN /\ Reply(p, Answer(500, "StoreUnavailable"))
            /\ UNCHANGED store
       ELSE /\ nextId["enrollment"] <= Cap("enrollment")
            /\ enrollments' = create_document(enrollments, "enrollment",
                  Enrollment(req[p].user_id, req[p].course_id))
            /\ nextId' = Bump("enrollment")
            /\ Reply(p, Answer(200, ""))
            /\ UNCHANGED <<users, courses>>

ConcNext ==
    \E p \in Procs :
        \/ RegisterFind(p)
        \/ RegisterCreate(p)
        \/ CreateCourseFind(p)
        \/ CreateCourseCreate(p)
        \/ EnrollFindUser(p)
        \/ EnrollFindCourse(p)
        \/ EnrollFindExisting(p)
        \/ EnrollCreate(p)

ConcSpec == ConcInit /\ [][ConcNext]_vars

----------------------------------------------------------------------------
(* Properties of requests handled one at a time *)

UserWithEmail(e) == \E i \in DOMAIN users : users[i].email = e
CourseWithCode(c) == \E i \in DOMAIN courses : courses[i].code = c
UserExists(oid) == \E i \in DOMAIN users : users[i]._id = oid
CourseExists(oid) == \E i \in DOMAIN courses : courses[i]._id = oid
Enrolled(u, c) ==
    \E i \in DOMAIN enrollments :
        enrollments[i].user_id = u /\ enrollments[i].course_id = c

\* C1: with a store connected, a register request whose email is not in the
\* user collection is answered 200, and every later login with the email and
\* password of a successful register is answered 200 with the token of that
\* user, whatever requests were handled in between.
C1_RegisterThenLogin ==
    [][ /\ \A r \in RegisterPayloads :
              ( /\ resp'.op = "register"
                /\ register(r[1], r[2], r[3])
                /\ db /\ ~UserWithEmail(r[2]) )
              => /\ resp'.status = 200
                 /\ resp'.body[1].email = r[2]
                 /\ UserWithEmail(r[2])'
        /\ \A e \in Emails, p \in Passwords :
              ( /\ resp'.op = "login"
                /\ login(e, p)
                /\ <<e, p>> \in registered )
              => /\ resp'.status = 200
                 /\ resp'.body[1].user.email = e
                 /\ \E i \in DOMAIN users :
                       /\ users[i].email = e
                       /\ resp'.body[1].token = Token(users[i]._id, e)
      ]_vars

\* A login succeeds for the user registered first, after a second
\* registration and an enrollment.
C1_Witness ==
    /\ resp.op = "login" /\ resp.status = 200
    /\ Len(users) = 2 /\ Len(courses) >= 1 /\ Len(enrollments) >= 1
    /\ resp.body[1].user.email = users[1].email
    /\ <<users[1].email, "pw1">> \in registered

\* C2: a register request whose email belongs to a stored user is answered
\* 400 "Email already registered" and leaves the store as it was, whatever
\* its name and password; no two stored users share an email.
C2_DuplicateEmail ==
    [][ /\ \A r \in RegisterPayloads :
              ( /\ resp'.op = "register"
                /\ register(r[1], r[2], r[3])
                /\ UserWithEmail(r[2]) )
              => /\ resp'.status = 400
                 /\ resp'.raised = "HTTPException"
                 /\ resp'.detail = "Email already registered"
                 /\ UNCHANGED store
        /\ \A i, j \in DOMAIN users' :
              users'[i].email = users'[j].email => i = j
      ]_vars

\* Ann is stored under a@u.edu and a register request was refused.
C2_Witness ==
    /\ resp.op = "register" /\ resp.status = 400
    /\ \E i \in DOMAIN users :
          users[i].email = "a@u.edu" /\ users[i].name = "Ann"
    /\ Len(users) = 2

C4_EnrollOnce ==
    [][ /\ \A u \in UserIdInputs, c \in CourseIdInputs :
              ( /\ resp'.op = "enroll"
                /\ ObjectId_is_valid(u) /\ ObjectId_is_valid(c)
                /\ UserExists(ObjectId(u)) /\ CourseExists(ObjectId(c))
                /\ enroll(u, c) )
              => IF ~Enrolled(u, c)
                 THEN /\ resp'.status = 200
                      /\ resp'.body[1].status = "enrolled"
                      /\ Len(enrollments') = Len(enrollments) + 1
                      /\ SubSeq(enrollments', 1, Len(enrollments)) = enrollments
                      /\ LET e == enrollments'[Len(enrollments')]
                         IN  /\ e.user_id = u /\ e.course_id = c
                             /\ e.status = "enrolled"
                      /\ UNCHANGED <<users, courses>>
                 ELSE /\ resp'.status = 400
                      /\ resp'.detail = "Already enrolled"
                      /\ UNCHANGED store
        /\ \A i, j \in DOMAIN enrollments' :
              ( /\ enrollments'[i].user_id = enrollments'[j].user_id
                /\ enrollments'[i].course_id = enrollments'[j].course_id )
              => i = j
      ]_vars

\* An enrollment is stored and a repeat of its request was refused.
C4_Witness ==
    /\ resp.op = "enroll" /\ resp.status = 400
    /\ resp.detail = "Already enrolled"
    /\ Len(enrollments) >= 1

\* C5: an enroll request in which either identifier is malformed is answered
\* 400 "Invalid IDs" without a single store operation, and the store is
\* unchanged, connected or not.
C5_InvalidIdsFirst ==
    [][ \A u \in UserIdInputs, c \in CourseIdInputs :
           ( /\ resp'.op = "enroll"
             /\ (~ObjectId_is_valid(u) \/ ~ObjectId_is_valid(c))
             /\ enroll(u, c) )
           => /\ resp'.status = 400
              /\ resp'.raised = "HTTPException"
              /\ resp'.detail = "Invalid IDs"
              /\ resp'.trace = <<>>
              /\ UNCHANGED store
      ]_vars

\* Connected, with a user and a course stored, an enroll request was refused
\* for its identifiers.
C5_Witness ==
    /\ resp.op = "enroll" /\ resp.detail = "Invalid IDs"
    /\ connected /\ Len(users) >= 1 /\ Len(courses) >= 1

\* C6: every request that fails is answered by an HTTPException whose status
\* is 400, 401 or 404; none leaves its handler as another exception.
C6_FailuresAreHttpErrors ==
    (resp.op # "none" /\ resp.raised # "none")
        => (resp.raised = "HTTPException" /\ resp.status \in {400, 401, 404})

\* The stored enrollments with user_id u whose course is stored.
Listed(u) ==
    {i \in DOMAIN enrollments :
        /\ enrollments[i].user_id = u
        /\ CourseExists(ObjectId(enrollments[i].course_id))}

\* C7: for a well-formed user_id, list-enrollments is answered 200 with
\* exactly one entry for each stored enrollment whose user_id is the
\* requested string and whose course is stored, carrying that course, and no
\* other entry; an enrollment whose course is absent is left out; nothing in
\* the store changes.
C7_ListEnrollments ==
    [][ \A u \in UserIdInputs :
           ( /\ resp'.op = "list_user_enrollments"
             /\ ObjectId_is_valid(u)
             /\ list_user_enrollments(u) )
           => LET body == resp'.body
              IN  /\ resp'.status = 200
                  /\ UNCHANGED store
                  /\ Len(body) = Cardinality(Listed(u))
                  /\ \A i \in Listed(u) :
                        \E k \in DOMAIN body :
                           /\ body[k].enrollment_id = str(enrollments[i]._id)
                           /\ body[k].status = enrollments[i].status
                           /\ body[k].course.id
                                 = str(ObjectId(enrollments[i].course_id))
                           /\ \E j \in DOMAIN courses :
                                 /\ str(courses[j]._id) = body[k].course.id
                                 /\ courses[j].code = body[k].course.code
      ]_vars

\* A user with one enrollment whose course is gone and one whose course is
\* stored was listed: one entry.
C7_Witness ==
    /\ resp.op = "list_user_enrollments" /\ resp.status = 200
    /\ Len(resp.body) = 1
    /\ \E i, j \in DOMAIN enrollments :
          /\ enrollments[i].user_id = enrollments[j].user_id
          /\ ~CourseExists(ObjectId(enrollments[i].course_id))
          /\ CourseExists(ObjectId(enrollments[j].course_id))
          /\ resp.body[1].enrollment_id = str(enrollments[j]._id)

\* text contains q as a substring, ignoring case.
Contains(q, text) ==
    \E off \in 0..(Len(text) - Len(q)) :
        \A k \in 1..Len(q) : Lower(q[k]) = Lower(text[off + k])

Satisfies(d, q, tag) ==
    /\ q # <<>> => \/ Contains(q, d.title)
                   \/ Contains(q, d.code)
                   \/ Contains(q, d.instructor)
    /\ tag # "" => \E i \in DOMAIN d.tags : d.tags[i] = tag

\* C8: list-courses returns exactly the stored courses that satisfy every
\* filter given: with q, the title, code or instructor contains q, ignoring
\* case; with a tag, the tag list contains it.
C8_ListCoursesFilters ==
    [][ \A q \in Queries, t \in TagParams :
           ( /\ resp'.op = "list_courses"
             /\ list_courses(q, t) )
           => LET hits == SelectSeq(courses, LAMBDA d : Satisfies(d, q, t))
              IN  /\ resp'.status = 200
                  /\ Len(resp'.body) = Len(hits)
                  /\ \A i \in DOMAIN hits :
                        resp'.body[i].id = str(hits[i]._id)
      ]_vars

----------------------------------------------------------------------------
(* Properties of interleaved requests *)

\* C9: each uniqueness check is a read followed by a separate write: a
\* request that read no record with its key performs its insert and is
\* answered 200 whatever was stored since, so two requests with one key that
\* both read before either writes both succeed.
C9_CheckThenWrite ==
    [][ \A p \in Procs :
           /\ ( /\ pc[p] = "register_create" /\ pc'[p] = "idle"
                /\ found[p].existing = None /\ db )
              => /\ out'[p].status = 200
                 /\ Len(users') = Len(users) + 1
                 /\ users'[Len(users')].email = req[p].email
           /\ ( /\ pc[p] = "create_course_create" /\ pc'[p] = "idle"
                /\ found[p].existing = None /\ db )
              => /\ out'[p].status = 200
                 /\ Len(courses') = Len(courses) + 1
                 /\ courses'[Len(courses')].code = req[p].code
           /\ ( /\ pc[p] = "enroll_create" /\ pc'[p] = "idle"
                /\ found[p].existing = None /\ db )
              => /\ out'[p].status = 200
                 /\ Len(enrollments') = Len(enrollments) + 1
                 /\ enrollments'[Len(enrollments')].user_id = req[p].user_id
                 /\ enrollments'[Len(enrollments')].course_id = req[p].course_id
      ]_vars

\* Two users share an email, two courses a code and two enrollments a
\* (user_id, course_id), and the last request of each worker was answered 200.
C9_Witness ==
    /\ \E i, j \in DOMAIN users :
          i # j /\ users[i].email = users[j].email
    /\ \E i, j \in DOMAIN courses :
          i # j /\ courses[i].code = courses[j].code
    /\ \E i, j \in DOMAIN enrollments :
          /\ i # j
          /\ enrollments[i].user_id = enrollments[j].user_id
          /\ enrollments[i].course_id = enrollments[j].course_id
    /\ \A p \in Procs : pc[p] = "idle" /\ out[p].status = 200

\* Every stored enrollment names a stored user and a stored course and has
\* status "enrolled".
EnrollmentsRefer ==
    \A i \in DOMAIN enrollments :
        /\ UserExists(ObjectId(enrollments[i].user_id))
        /\ CourseExists(ObjectId(enrollments[i].course_id))
        /\ enrollments[i].status = "enrolled"

\* C10: under any interleaving, an enroll request that misses the user or
\* the course is answered 404 and leaves the store unchanged, an enrollment
\* is inserted only by a request that found both, no step removes or changes
\* a user or a course, and so every stored enrollment names a stored user
\* and a stored course and has status "enrolled".
C10_EnrollmentsRefer ==
    [][ /\ \A p \in Procs :
              /\ ( /\ pc[p] = "enroll_find_course" /\ pc'[p] # pc[p]
                   /\ (found'[p].user = None \/ found'[p].course = None) )
                 => /\ out'[p] = Answer(404, "User or course not found")
                    /\ pc'[p] = "idle"
                    /\ UNCHANGED store
              /\ ( /\ pc[p] = "enroll_create" /\ pc'[p] = "idle"
                   /\ enrollments' # enrollments )
                 => /\ found[p].user # None /\ found[p].course # None
                    /\ found[p].user[1]._id = ObjectId(req[p].user_id)
                    /\ found[p].course[1]._id = ObjectId(req[p].course_id)
        /\ Len(users') >= Len(users)
        /\ SubSeq(users', 1, Len(users)) = users
        /\ Len(courses') >= Len(courses)
        /\ SubSeq(courses', 1, Len(courses)) = courses
        /\ EnrollmentsRefer'
      ]_vars

\* An enrollment is stored, and an enroll request was answered 404.
C10_Witness ==
    /\ Len(enrollments) >= 1
    /\ \E p \in Procs :
          out[p] = Answer(404, "User or course not found")

====
